---------------------------- MODULE Spec2Model ----------------------------
(***************************************************************************)
(* Model of downstream/ctc/expert.py: the DownstreamExpert adapter of the  *)
(* CTC speech-recognition downstream task.                                 *)
(*                                                                         *)
(* State: the adapter's configuration (metrics, metric_higher_better,      *)
(* eval_dataloaders) and its best_score buffer, the records accumulator    *)
(* the training harness passes to forward and log_records, and what the    *)
(* most recent interface call did (its arguments, what it handed to the    *)
(* CTC loss and to the logger, and how it ended).                          *)
(*                                                                         *)
(* Numbers.  Scores, means and best_score are rationals <<num, den>> in    *)
(* lowest terms, counted in units of 2^29 (TLC's integers are 32 bits      *)
(* wide, so 1 << 31 itself cannot be written): 1 << 31 is 4 units.  The    *)
(* code averages in float32; on the scores enumerated here (0 and 6 units, *)
(* at most a dozen values) every sum is exact in float32 and two means     *)
(* that differ do so by far more than one rounding step, so the order and  *)
(* the equality of means are those of the exact rationals.                 *)
(***************************************************************************)
EXTENDS Integers, Sequences, FiniteSets, TLC

VARIABLES
    metrics,               \* self.metrics: the configured list of metric names
    metric_higher_better,  \* self.metric_higher_better
    eval_dataloaders,      \* self.eval_dataloaders: the evaluation split names
    best_score,            \* the registered buffer self.best_score
    records,               \* the records accumulator (a defaultdict(list))
    last,                  \* the most recent interface call and its effects
    loader,                \* the batches a data loader has collated and not
                           \* yet handed to forward
    best_passed            \* history: the best of the initial best_score and of
                           \* every primary-metric mean log_records compared
                           \* for the first evaluation split

vars == <<metrics, metric_higher_better, eval_dataloaders, best_score,
          records, last, loader, best_passed>>

config == <<metrics, metric_higher_better, eval_dataloaders>>

---------------------------------------------------------------------------
(* Bounds of the model *)

\* forward calls accumulated into one records object
MaxForward == 5
\* forward calls accumulated into one records object (SampleSpec)
MaxSamples == 12
\* utterances per generated batch (PadSpec)
MaxBatch == 2
\* frames per generated utterance (PadSpec)
MaxFeatLen == 3
\* tokens per generated label sequence (PadSpec)
MaxLabelLen == 2

---------------------------------------------------------------------------
(* Rationals *)

RECURSIVE GCD(_, _)
GCD(a, b) == IF b = 0 THEN a ELSE GCD(b, a % b)

Rat(num, den) ==
    LET g == GCD(num, den) IN <<num \div g, den \div g>>

RatLess(a, b) == a[1] * b[2] < b[1] * a[2]

RECURSIVE Sum(_)
Sum(values) == IF values = <<>> THEN 0 ELSE Head(values) + Sum(Tail(values))

\* torch.FloatTensor(values).mean().item()
Mean(values) == Rat(Sum(values), Len(values))

---------------------------------------------------------------------------
(* Collaborators: tokenizer, sequence model, loss, metric functions *)

\* self.tokenizer.pad_idx, also the CTC blank
PadIdx == 0

\* the frame reduction of the sequence model: output length per input length
SampleRate == 2

Tokens == {1}

Splits == {"dev", "test"}

TextKeys == <<"hypothesis", "groundtruth", "filename">>

\* names bound to something that is not a function where forward evaluates
\* eval(metric): a metric list entry of this kind cannot be called
ForwardLocals == {"loss"}

MetricLists == {<<"wer">>, <<"wer", "cer">>, <<"cer", "cer">>, <<"wer", "loss">>}

EvalLists == {<<"dev", "test">>}

\* self.model(features, features_len)[1]: the lengths of the model's outputs
ModelLengths(features_len) ==
    [i \in DOMAIN features_len |-> features_len[i] \div SampleRate]

\* tokenizer.decode(label row): the tokens without the padding
RECURSIVE Decode(_)
Decode(row) ==
    IF row = <<>> THEN <<>>
    ELSE IF Head(row) = PadIdx THEN Decode(Tail(row))
    ELSE <<Head(row)>> \o Decode(Tail(row))

\* an utterance: its feature frames, its label tokens, its file name and the
\* text the model and the greedy decoder give for it
Utt(feat, label, filename, hyp) ==
    [feat |-> feat, label |-> label, filename |-> filename, hyp |-> hyp]

Frames(n) == [j \in 1..n |-> 1]

\* the spec's padding example: labels of lengths 3, 5, 2 and features of
\* lengths 10, 12, 8
ExampleBatch ==
    [utts |-> << Utt(Frames(10), <<1, 1, 1>>, "e1", <<1>>),
                 Utt(Frames(12), <<1, 1, 1, 1, 1>>, "e2", <<1>>),
                 Utt(Frames(8), <<1, 1>>, "e3", <<>>) >>,
     loss |-> 2, score |-> 6]

BatchA ==
    [utts |-> << Utt(Frames(2), <<1, 1>>, "a1", <<1, 1>>),
                 Utt(Frames(3), <<1>>, "a2", <<1>>) >>,
     loss |-> 2, score |-> 0]

BatchB ==
    [utts |-> << Utt(Frames(1), <<1, 1, 1>>, "b1", <<1>>),
                 Utt(Frames(3), <<1>>, "b2", <<>>),
                 Utt(Frames(2), <<>>, "b3", <<1>>) >>,
     loss |-> 2, score |-> 6]

\* the batches the data loaders hand to forward
Batches == {BatchA, BatchB}

LabelsUpTo(n) == UNION {[1..k -> Tokens] : k \in 0..n}

GenUtts ==
    {Utt(Frames(f), l, "g", <<>>) : f \in 1..MaxFeatLen, l \in LabelsUpTo(MaxLabelLen)}

\* every batch within the bounds, and the spec's example
PadBatches ==
    {[utts |-> u, loss |-> 2, score |-> 6] :
        u \in UNION {[1..n -> GenUtts] : n \in 1..MaxBatch}}
    \cup {ExampleBatch}

\* self.objective(...).item(): the loss of the batch
LossValue(batch) == batch.loss

\* eval(metric)(...): the value of a metric function on the batch
MetricValue(metric, batch) == batch.score

---------------------------------------------------------------------------
(* DownstreamExpert.__init__ *)

\* 1 << 31, in units of 2^29
WorstLowerBetter == 4

InitialBestScore(higher_better) ==
    IF higher_better THEN <<0, 1>> ELSE <<WorstLowerBetter, 1>>

RecordKeys == {"loss", "wer", "cer", "hypothesis", "groundtruth", "filename"}

EmptyRecords == [k \in RecordKeys |-> <<>>]

NoCall ==
    [op |-> "init", split |-> "", outcome |-> "returned", batch |-> <<>>,
     features |-> <<>>, labels |-> <<>>, input_lengths |-> <<>>,
     target_lengths |-> <<>>, save_names |-> <<>>, scalars |-> <<>>,
     text |-> <<>>, stride |-> 0]

Init ==
    /\ metrics \in MetricLists
    /\ metric_higher_better \in BOOLEAN
    /\ eval_dataloaders \in EvalLists
    /\ best_score = InitialBestScore(metric_higher_better)
    /\ records = EmptyRecords
    /\ last = NoCall
    /\ loader = <<>>
    /\ best_passed = InitialBestScore(metric_higher_better)

---------------------------------------------------------------------------
(* DownstreamExpert.get_dataloader *)

get_dataloader(split) ==
    /\ last' = [NoCall EXCEPT !.op = "get_dataloader", !.split = split]
    /\ UNCHANGED <<config, best_score, records, loader, best_passed>>

---------------------------------------------------------------------------
(* DownstreamExpert.forward *)

SeqMax(lens) ==
    CHOOSE m \in {lens[i] : i \in DOMAIN lens} :
        \A i \in DOMAIN lens : lens[i] <= m

\* [len(x) for x in seqs]
Lengths(seqs) == [i \in DOMAIN seqs |-> Len(seqs[i])]

\* pad_sequence(seqs, batch_first=True, padding_value=...)
PadSequence(seqs, padding_value) ==
    LET m == SeqMax(Lengths(seqs))
    IN  [i \in DOMAIN seqs |->
            seqs[i] \o [j \in 1..(m - Len(seqs[i])) |-> padding_value]]

FeaturesLenAfterPadding(features) == Lengths(PadSequence(features, 0))

\* features_len, taken before the features are padded
FeaturesLen(features) == Lengths(features)

\* labels_len, taken before the labels are padded
LabelsLen(labels) == Lengths(labels)

LastSample(xs) == xs[Len(xs)]

\* hypothesis[0], groundtruth[0], filenames[0]
FirstSample(xs) == xs[1]

\* records[key].append(value)
RecAppend(recs, key, value) == [recs EXCEPT ![key] = Append(@, value)]

\* for metric in self.metrics: records[metric].append(eval(metric)(...))
\* eval of a name that forward's locals bind to a non-function raises
RECURSIVE MetricLoop(_, _, _)
MetricLoop(recs, ms, batch) ==
    IF ms = <<>> THEN [records |-> recs, raised |-> FALSE]
    ELSE IF Head(ms) \in ForwardLocals THEN [records |-> recs, raised |-> TRUE]
    ELSE MetricLoop(RecAppend(recs, Head(ms), MetricValue(Head(ms), batch)),
                    Tail(ms), batch)

\* forward(split, features, labels, filenames, records); fresh: the harness
\* passes a new, empty accumulator instead of the one it has been filling
forward(split, batch, fresh) ==
    LET utts == batch.utts
        feats == [i \in DOMAIN utts |-> utts[i].feat]
        labs == [i \in DOMAIN utts |-> utts[i].label]
        features_len == FeaturesLen(feats)
        labels_len == LabelsLen(labs)
        features == PadSequence(feats, 0)
        labels == PadSequence(labs, PadIdx)
        log_probs_len == ModelLengths(features_len)
        base == IF fresh THEN EmptyRecords ELSE records
        r1 == RecAppend(base, "loss", LossValue(batch))
        hypothesis == [i \in DOMAIN utts |-> utts[i].hyp]
        groundtruth == [i \in DOMAIN utts |-> Decode(labels[i])]
        filenames == [i \in DOMAIN utts |-> utts[i].filename]
        m == MetricLoop(r1, metrics, batch)
        r2 == RecAppend(m.records, "hypothesis", FirstSample(hypothesis))
        r3 == RecAppend(r2, "groundtruth", FirstSample(groundtruth))
        r4 == RecAppend(r3, "filename", FirstSample(filenames))
    IN  /\ records' = IF m.raised THEN m.records ELSE r4
        /\ last' = [NoCall EXCEPT
                        !.op = "forward", !.split = split, !.batch = batch,
                        !.outcome = IF m.raised THEN "raised" ELSE "returned",
                        !.features = features, !.labels = labels,
                        !.input_lengths = log_probs_len,
                        !.target_lengths = labels_len]
        /\ UNCHANGED <<config, best_score, best_passed>>

---------------------------------------------------------------------------
(* DownstreamExpert.log_records *)

RECURSIVE Dedup(_)
Dedup(s) ==
    IF s = <<>> THEN <<>>
    ELSE LET rest == Dedup(SubSeq(s, 1, Len(s) - 1))
             x == s[Len(s)]
         IN  IF \E i \in DOMAIN rest : rest[i] = x THEN rest ELSE Append(rest, x)

\* records.items(): the keys in the order forward creates them
RecordItems(recs) ==
    SelectSeq(Dedup(<<"loss">> \o metrics \o TextKeys), LAMBDA k : recs[k] /= <<>>)

\* type(values[0]) in [int, float, torch.Tensor]
IsNumeric(key) == \A i \in DOMAIN TextKeys : TextKeys[i] /= key

SaveCriterionSwapped(average, best, higher_better) ==
    IF higher_better THEN RatLess(average, best) ELSE RatLess(best, average)

SaveCriterionNonStrict(average, best, higher_better) ==
    IF higher_better THEN ~RatLess(average, best) ELSE ~RatLess(best, average)

\* average > self.best_score if self.metric_higher_better
\*     else average < self.best_score
SaveCriterion(average, best, higher_better) ==
    IF higher_better THEN RatLess(best, average) ELSE RatLess(average, best)

IsAnyEvalSplit(split) == \E i \in DOMAIN eval_dataloaders : eval_dataloaders[i] = split

\* split == self.eval_dataloaders[0]
IsBestSplit(split) == split = eval_dataloaders[1]

\* key == self.metrics[0]
IsPrimary(key) == key = metrics[1]

\* f'{split}-best.ckpt'
BestName(split) == split \o "-best.ckpt"

\* the body of the loop over records.items(), from the state acc
RECURSIVE ItemsLoop(_, _, _, _)
ItemsLoop(keys, recs, split, acc) ==
    IF keys = <<>> THEN acc
    ELSE
        LET key == Head(keys)
            average == Mean(recs[key])
            save == /\ IsPrimary(key)
                    /\ IsBestSplit(split)
                    /\ SaveCriterion(average, acc.best, metric_higher_better)
            logged == [acc EXCEPT !.scalars = Append(@, <<split, key, average>>)]
            next == IF ~IsNumeric(key) THEN acc
                    ELSE IF save
                         THEN [logged EXCEPT !.best = average,
                                             !.save_names = Append(@, BestName(split))]
                         ELSE logged
        IN  ItemsLoop(Tail(keys), recs, split, next)

\* Python's round(num / den): to the nearest integer, a tie to the even one
PyRound(num, den) ==
    LET q == num \div den
        r == num % den
    IN  IF 2 * r < den THEN q
        ELSE IF 2 * r > den THEN q + 1
        ELSE IF q % 2 = 0 THEN q ELSE q + 1

StrideFloor(n) == n \div 5

\* round(len(records['filename']) / 5)
Stride(n) == PyRound(n, 5)

\* list(range(0, n, step)) for step > 0
Range(n, step) == [k \in 1..((n + step - 1) \div step) |-> (k - 1) * step]

\* logger.add_text for sample i (counted from 0) of the records
TextEntry(recs, split, i) ==
    [index |-> i, tag |-> <<split, recs["filename"][i + 1]>>,
     hypothesis |-> recs["hypothesis"][i + 1],
     groundtruth |-> recs["groundtruth"][i + 1]]

\* the better of two scores in the configured direction
Better(a, b) ==
    IF metric_higher_better
    THEN (IF RatLess(a, b) THEN b ELSE a)
    ELSE (IF RatLess(b, a) THEN b ELSE a)

\* log_records(split, records, logger, global_step)
log_records(split) ==
    LET acc == ItemsLoop(RecordItems(records), records, split,
                         [best |-> best_score, save_names |-> <<>>, scalars |-> <<>>])
        n == Len(records["filename"])
        step == Stride(n)
        raised == step = 0
        idx == IF raised THEN <<>> ELSE Range(n, step)
        primary == metrics[1]
    IN  /\ best_score' = acc.best
        /\ last' = [NoCall EXCEPT
                        !.op = "log_records", !.split = split,
                        !.outcome = IF raised THEN "raised" ELSE "returned",
                        !.save_names = IF raised THEN <<>> ELSE acc.save_names,
                        !.scalars = acc.scalars,
                        !.text = [k \in DOMAIN idx |-> TextEntry(records, split, idx[k])],
                        !.stride = step]
        /\ best_passed' =
               IF split = eval_dataloaders[1] /\ records[primary] /= <<>>
               THEN Better(best_passed, Mean(records[primary]))
               ELSE best_passed
        /\ UNCHANGED <<config, records, loader>>

---------------------------------------------------------------------------
(* Specifications *)

\* the harness has room for one more forward call on this accumulator
Room(fresh, bound) == fresh \/ Len(records["loss"]) < bound

Next ==
    \/ \E split \in Splits : get_dataloader(split)
    \/ \E split \in Splits, batch \in Batches, fresh \in BOOLEAN :
           /\ Room(fresh, MaxForward)
           /\ forward(split, batch, fresh)
           /\ UNCHANGED loader
    \/ \E split \in Splits : log_records(split)

Spec == Init /\ [][Next]_vars

\* forward alone: the data loader has collated one batch, any batch within
\* the bounds, and forward takes it with a new accumulator
PadInit ==
    /\ metrics \in MetricLists
    /\ metric_higher_better \in BOOLEAN
    /\ eval_dataloaders \in EvalLists
    /\ best_score = InitialBestScore(metric_higher_better)
    /\ records = EmptyRecords
    /\ last = NoCall
    /\ loader \in {<<b>> : b \in PadBatches}
    /\ best_passed = InitialBestScore(metric_higher_better)

PadNext ==
    \E split \in Splits :
        /\ loader /= <<>>
        /\ forward(split, Head(loader), TRUE)
        /\ loader' = Tail(loader)

PadSpec == PadInit /\ [][PadNext]_vars

\* one split's epoch: the same batch again and again into one accumulator,
\* logged at any point
SampleNext ==
    \/ \E split \in Splits :
           /\ Room(FALSE, MaxSamples)
           /\ forward(split, BatchB, FALSE)
           /\ UNCHANGED loader
    \/ \E split \in Splits : log_records(split)

SampleSpec == Init /\ [][SampleNext]_vars

---------------------------------------------------------------------------
(* Properties *)

FirstEvalSplit == eval_dataloaders[1]

PrimaryValues == records[metrics[1]]

\* the mean of the primary metric over the records (records are left alone
\* by log_records, so this is also the mean the last log_records call saw)
PrimaryMean == Mean(PrimaryValues)

\* a is strictly better than b in the configured direction
StrictlyBetter(a, b) ==
    IF metric_higher_better THEN RatLess(b, a) ELSE RatLess(a, b)

Zero == <<0, 1>>

MaxOf(S) == CHOOSE m \in S : \A x \in S : x <= m

\* C1: best_score changes only in a log_records call whose split is the
\* first entry of eval_dataloaders and whose records hold a primary-metric
\* mean strictly better than the current best_score; every other call
\* leaves best_score as it was.
C1_BestScoreChangesOnlyOnBetterFirstSplit ==
    [][best_score' /= best_score =>
          /\ last'.op = "log_records"
          /\ last'.split = FirstEvalSplit
          /\ PrimaryValues /= <<>>
          /\ StrictlyBetter(PrimaryMean, best_score)]_vars

\* C1 witness: log_records was called for a split that is not the first
\* evaluation split with a mean better than best_score, which stayed.
C1_Witness ==
    /\ last.op = "log_records"
    /\ last.split /= FirstEvalSplit
    /\ PrimaryValues /= <<>>
    /\ StrictlyBetter(PrimaryMean, best_score)

\* C2: with metric_higher_better, a log_records call on the first evaluation
\* split that finds best_score at 0 and a mean m1 > 0 returns
\* '<split>-best.ckpt' and sets best_score to m1; the next such call, with a
\* mean m2 <= m1 = best_score, returns no label and leaves best_score.
C2_FirstSavesSecondDoesNot ==
    [][(/\ last'.op = "log_records"
        /\ last'.split = FirstEvalSplit
        /\ metric_higher_better
        /\ PrimaryValues /= <<>>) =>
          /\ (best_score = Zero /\ RatLess(Zero, PrimaryMean)) =>
                 /\ last'.outcome = "returned"
                 /\ last'.save_names = <<last'.split \o "-best.ckpt">>
                 /\ best_score' = PrimaryMean
          /\ (RatLess(Zero, best_score) /\ ~RatLess(best_score, PrimaryMean)) =>
                 /\ last'.save_names = <<>>
                 /\ best_score' = best_score]_vars

\* C3: with metric_higher_better false, a log_records call on the first
\* evaluation split that finds best_score at its initial value saves for
\* any finite mean: it returns '<split>-best.ckpt' and best_score becomes
\* the mean.  (Stated for the calls that return, so that a violation is a
\* completed call that did not save.)
C3_LowerBetterFirstMeanSaves ==
    [][(/\ last'.op = "log_records"
        /\ last'.outcome = "returned"
        /\ last'.split = FirstEvalSplit
        /\ ~metric_higher_better
        /\ best_score = InitialBestScore(FALSE)
        /\ PrimaryValues /= <<>>) =>
          /\ best_score' = PrimaryMean
          /\ last'.save_names = <<last'.split \o "-best.ckpt">>]_vars

\* the keys one forward call is to append to
AppendKeys ==
    {"loss", "hypothesis", "groundtruth", "filename"}
        \cup {metrics[i] : i \in DOMAIN metrics}

\* the forward step appended exactly one value to every key of AppendKeys,
\* the first utterance's text to the text keys, and nothing anywhere else
AppendsOneEach ==
    \E base \in {records, EmptyRecords} :
        /\ \A k \in AppendKeys :
               /\ Len(records'[k]) = Len(base[k]) + 1
               /\ SubSeq(records'[k], 1, Len(base[k])) = base[k]
        /\ \A k \in RecordKeys \ AppendKeys : records'[k] = base[k]
        /\ records'["loss"][Len(records'["loss"])] = last'.batch.loss
        /\ records'["filename"][Len(records'["filename"])]
               = last'.batch.utts[1].filename
        /\ records'["hypothesis"][Len(records'["hypothesis"])]
               = last'.batch.utts[1].hyp
        /\ records'["groundtruth"][Len(records'["groundtruth"])]
               = last'.batch.utts[1].label

\* a metric list of distinct names of metric functions
PlainMetrics ==
    /\ \A i \in DOMAIN metrics : metrics[i] /= "loss"
    /\ \A i, j \in DOMAIN metrics : i /= j => metrics[i] /= metrics[j]

\* C4 as stated: every forward call, under every metric list, appends
\* exactly one value per key, so all the lists are as long as records['loss'].
C4_EveryConfigAppendsOne ==
    /\ [][last'.op = "forward" => AppendsOneEach]_vars
    /\ [](\A k \in AppendKeys : Len(records[k]) = Len(records["loss"]))

\* C4 amended: when the metric list holds distinct names, none of them
\* 'loss', every forward call appends exactly one value to records['loss'],
\* one to each metric's list and the first utterance's hypothesis,
\* groundtruth and filename, so these lists all have the length of
\* records['loss'], the number of forward calls on the accumulator.
C4_PlainMetricsAppendOne ==
    /\ [][(last'.op = "forward" /\ PlainMetrics) => AppendsOneEach]_vars
    /\ [](PlainMetrics =>
             \A k \in AppendKeys : Len(records[k]) = Len(records["loss"]))

\* C4 witness: a second forward call on one accumulator, two metrics
\* configured, the batch holding several utterances.
C4_Witness ==
    /\ last.op = "forward"
    /\ PlainMetrics
    /\ Len(metrics) = 2
    /\ Len(last.batch.utts) >= 2
    /\ Len(records["filename"]) >= 2

\* the number of samples the last log_records call had to choose from
SampleCount == Len(records["filename"])

\* C5 as stated: a log_records call that completes emits exactly 5 text
\* entries.
C5_ExactlyFiveTextEntries ==
    (last.op = "log_records" /\ last.outcome = "returned") =>
        Len(last.text) = 5

\* C5 amended: a log_records call that completes over n samples emits
\* ceil(n / s) text entries, at the indices 0, s, 2s, ... below n with
\* s = round(n / 5) = (n + 2) div 5, each pairing the filename, hypothesis
\* and groundtruth at its index; that is between 3 and 7 entries, and
\* exactly 5 when n is a multiple of 5.
C5_TextEntriesByStride ==
    (last.op = "log_records" /\ last.outcome = "returned") =>
        LET n == SampleCount
            s == (n + 2) \div 5
            c == (n + s - 1) \div s
        IN  /\ last.stride = s
            /\ Len(last.text) = c
            /\ c >= 3 /\ c <= 7
            /\ (n % 5 = 0 => c = 5)
            /\ \A k \in 1..c :
                   /\ last.text[k].index = (k - 1) * s
                   /\ last.text[k].tag
                          = <<last.split, records["filename"][(k - 1) * s + 1]>>
                   /\ last.text[k].hypothesis
                          = records["hypothesis"][(k - 1) * s + 1]
                   /\ last.text[k].groundtruth
                          = records["groundtruth"][(k - 1) * s + 1]

\* C5 witness: log_records completed over 10 samples with 5 text entries.
C5_Witness ==
    /\ last.op = "log_records"
    /\ last.outcome = "returned"
    /\ SampleCount = 10
    /\ Len(last.text) = 5

\* C6 as stated: with fewer than 5 samples the stride is zero and
\* log_records fails.
C6_FewerThanFiveFails ==
    (last.op = "log_records" /\ SampleCount < 5) =>
        (last.stride = 0 /\ last.outcome = "raised")

\* C6 amended: with fewer than 3 samples (0, 1 or 2) the stride is zero and
\* log_records fails, returning nothing and logging no text, the failure
\* reaching the caller; with 3 samples or more the stride is at least 1 and
\* the call returns.
C6_FewerThanThreeFails ==
    last.op = "log_records" =>
        /\ SampleCount < 3 =>
               /\ last.stride = 0
               /\ last.outcome = "raised"
               /\ last.text = <<>>
               /\ last.save_names = <<>>
        /\ SampleCount >= 3 =>
               /\ last.stride >= 1
               /\ last.outcome = "returned"

\* C6 witness: log_records failed over 2 samples.
C6_Witness ==
    /\ last.op = "log_records"
    /\ SampleCount = 2
    /\ last.outcome = "raised"

\* C7: after forward, the padded labels and features have one row per
\* utterance, every row as long as the longest label (feature) sequence,
\* each row the original sequence followed by padding only (the pad index
\* for labels, zero for features); the target lengths given to the loss are
\* the unpadded label lengths and the input lengths are those the model
\* returns for the unpadded feature lengths.
C7_PaddingAndLengths ==
    last.op = "forward" =>
        LET u == last.batch.utts
            ml == MaxOf({Len(u[i].label) : i \in DOMAIN u})
            mf == MaxOf({Len(u[i].feat) : i \in DOMAIN u})
        IN  /\ DOMAIN last.labels = DOMAIN u
            /\ DOMAIN last.features = DOMAIN u
            /\ DOMAIN last.target_lengths = DOMAIN u
            /\ DOMAIN last.input_lengths = DOMAIN u
            /\ \A i \in DOMAIN u :
                   /\ Len(last.labels[i]) = ml
                   /\ Len(last.features[i]) = mf
                   /\ \A j \in 1..ml :
                          last.labels[i][j] =
                              IF j <= Len(u[i].label) THEN u[i].label[j] ELSE PadIdx
                   /\ \A j \in 1..mf :
                          last.features[i][j] =
                              IF j <= Len(u[i].feat) THEN u[i].feat[j] ELSE 0
                   /\ last.target_lengths[i] = Len(u[i].label)
                   /\ last.input_lengths[i] = Len(u[i].feat) \div SampleRate

\* C7 witness: the example of label lengths 3, 5, 2 and feature lengths
\* 10, 12, 8 went through forward: second dimensions 5 and 12.
C7_Witness ==
    /\ last.op = "forward"
    /\ last.batch = ExampleBatch
    /\ Len(last.labels[3]) = 5
    /\ Len(last.features[3]) = 12
    /\ last.target_lengths = <<3, 5, 2>>

\* C8: a log_records call that returns yields at most one name; the name is
\* '<split>-best.ckpt' for the split passed in; and the list is non-empty
\* exactly when best_score changed in that call.
C8_SaveNamesZeroOrOne ==
    [][(last'.op = "log_records" /\ last'.outcome = "returned") =>
          /\ Len(last'.save_names) <= 1
          /\ \A i \in DOMAIN last'.save_names :
                 last'.save_names[i] = last'.split \o "-best.ckpt"
          /\ (last'.save_names /= <<>>) <=> (best_score' /= best_score)]_vars

\* C8 witness: a call that returned one name.
C8_Witness ==
    /\ last.op = "log_records"
    /\ last.outcome = "returned"
    /\ Len(last.save_names) = 1
    /\ best_score = PrimaryMean

\* C9: best_score changes only in a call that returns and hands the caller
\* '<split>-best.ckpt'.
C9_NoUpdateWithoutLabel ==
    [][best_score' /= best_score =>
          /\ last'.outcome = "returned"
          /\ last'.save_names = <<last'.split \o "-best.ckpt">>]_vars

\* C10: best_score never gets worse in the configured direction, forward
\* and get_dataloader never change it, and it always equals the best of its
\* initial value and of the primary-metric means passed so far to
\* log_records for the first evaluation split.
C10_BestScoreIsBestSoFar ==
    /\ [](best_score = best_passed)
    /\ [][/\ ~StrictlyBetter(best_score, best_score')
          /\ last'.op \in {"forward", "get_dataloader"} =>
                 best_score' = best_score]_vars

\* C10 witness: a worse mean was passed for the first evaluation split after
\* a better one had been recorded.
C10_Witness ==
    /\ last.op = "log_records"
    /\ last.split = FirstEvalSplit
    /\ PrimaryValues /= <<>>
    /\ StrictlyBetter(best_score, PrimaryMean)
    /\ best_score /= InitialBestScore(metric_higher_better)

=============================================================================
